---- MODULE Spec2Model ----
(***************************************************************************)
(* nyfiken: the per-page check of package page (Page.check, ForceUpdate),  *)
(* the update map of package settings (Updates, SaveUpdates, LoadUpdates)  *)
(* and the string distance of package distance (Approx).                   *)
(*                                                                         *)
(* Abstractions.  A downloaded document is represented by the text that    *)
(* the page's CSS selection renders, a sequence of code points; the empty  *)
(* sequence is a selection that matched nothing.  The float64 score of     *)
(* distance.Approx is kept as an exact fraction num/den.  Files other than *)
(* the comparison (cache) file and updates.gob are never read by the code; *)
(* of a write to one of them only its outcome is kept.  Time is counted in *)
(* seconds.  A ForceUpdate cycle starts when the previous one has been     *)
(* collected.                                                              *)
(***************************************************************************)
EXTENDS Integers, Sequences, FiniteSets, TLC

\* ------------------------------------------------------------------ bounds
\* Longest document text, number of ForceUpdate cycles, longest download.
MaxDocLen == 2
MaxCycles == 3
MaxFetchTime == 11
\* Number of ForceUpdate cycles of the runs with two pages.
MaxRounds == 2
\* Number of calls of package strip on one document.
MaxApplied == 2

\* settings.TimeoutDuration, in seconds.
TimeoutDuration == 10

\* ------------------------------------------------------------------- state
VARIABLES
    ReqUrl,       \* Page.ReqUrl of every page (read-only after start)
    Settings,     \* Page.Settings of every page (read-only after start)
    SenderMail,   \* settings.Global.SenderMail (read-only after start)
    cache,        \* comparison file per file name: its text, or NotFound
    Updates,      \* settings.Updates: the URLs mapped to true
    updatesFile,  \* updates.gob
    pc,           \* position of every page's Check goroutine
    r,            \* result of download, received in the select of check
    sender,       \* the goroutine errWrapDownload started for this check
    selection,    \* local selection of check
    err,          \* value check returned ("none" while it runs)
    verdict,      \* branch check took: "none", "new", "unchanged", "changed"
    base0,        \* comparison file of the page when its check started
    debugWritten, \* this check has written the debug copy of the document
    updates0,     \* settings.Updates when the cycle started
    slow,         \* the download of this check took longer than TimeoutDuration
    mailed,       \* mail.Send of this check returned nil
    racing,       \* the page's current map operation overlapped another one
    crashed,      \* the runtime aborted the process (concurrent map access)
    cycle,        \* number of ForceUpdate calls so far
    numChecks,    \* results the collector goroutine still waits for
    logged,       \* pages whose error the collector logged in this cycle
    succeeded,    \* pages with at least one check that returned nil
    last,         \* what the previous check of the page wrote as comparison file
    approxStr1,   \* the arguments str1 and str2 of a call of distance.Approx
    approxStr2,
    approxDist,   \* Approx(str1, str2), once computed
    approxRev,    \* Approx(str2, str1), once computed
    stripDoc,     \* the html.Node tree handed to the functions of package strip
    stripDoc0,    \* that tree before any of them ran
    applied,      \* the functions of package strip that ran on doc, in order
    htmlNode,     \* the argument of a call of Page.makeSelection
    made,         \* what that call returned
    iniStrip,     \* the strip list of every section of pages.ini
    readPages     \* what ini.ReadPages returned on that file

vars == <<ReqUrl, Settings, SenderMail, cache, Updates, updatesFile, pc, r, sender,
          selection, err, verdict, base0, debugWritten, updates0, slow, mailed, racing, crashed,
          cycle, numChecks, logged, succeeded, last,
          approxStr1, approxStr2, approxDist, approxRev, stripDoc, stripDoc0, applied,
          htmlNode, made, iniStrip, readPages>>

\* ------------------------------------------------------- pages and settings
Pages == {"p1", "p2"}

\* The URLs of the two pages of pages.ini: their files have different names.
PagesIni ==
    [p1 |-> [Scheme |-> "http", Host |-> "a.org", Path |-> "/news", RawQuery |-> ""],
     p2 |-> [Scheme |-> "http", Host |-> "b.org", Path |-> "/blog", RawQuery |-> "p=1"]]

\* url.URL.String(): the key of the page in settings.Updates.
UrlString(p) ==
    ReqUrl[p].Scheme \o "://" \o ReqUrl[p].Host \o ReqUrl[p].Path \o
    (IF ReqUrl[p].RawQuery = "" THEN "" ELSE "?" \o ReqUrl[p].RawQuery)

Urls == {UrlString(p) : p \in Pages}

\* Page.UrlAsFilename: the name of the page's files below each root.
UrlAsFilename(p) == ReqUrl[p].Host \o ReqUrl[p].Path \o ReqUrl[p].RawQuery

Filenames == {UrlAsFilename(p) : p \in Pages}

\* Code points of document text: the digit '1' and the letter 'a'.
Chars == {49, 97}
Docs == UNION {[1..n -> Chars] : n \in 0..MaxDocLen}

\* unicode.IsDigit on the code points used: the ASCII digits and the
\* Arabic-Indic digits, both of category Nd.
IsDigit(chr) == chr \in 48..57 \/ chr \in 1632..1641

\* settings.Page: the fields Page.check reads.  Threshold comes from
\* section.F64(fieldThreshold, 0); RecvMail from the page or the global one.
Thresholds == {0, 50}
RecvMails == {"", "op@example.org"}
StripLists == {<<>>, <<"numbers">>}
\* Selection, Regexp and Negexp come from section.S(field, ""): the empty
\* string is an unset field.  "h1[" is no CSS selector.  The patterns are
\* a, (a), aa and the incomplete group "(".
Selections == {"", "h1["}
Patterns == {<<>>, <<97>>, <<40, 97, 41>>, <<97, 97>>, <<40>>}
PageSettings ==
    [Threshold : Thresholds, RecvMail : RecvMails, StripFuncs : StripLists,
     Selection : Selections, Regexp : Patterns, Negexp : Patterns]

\* settings.Global.SenderMail as parseMail leaves it: without a [mail]
\* section every field is empty, with one every field is set.
NoSenderMail == [Address |-> "", AuthServer |-> "", OutServer |-> ""]
SetSenderMail == [Address |-> "bot@example.org", AuthServer |-> "auth.example.org",
                  OutServer |-> "smtp.example.org:587"]
SenderMails == {NoSenderMail, SetSenderMail}

\* A file: absent, or present with its contents.
NotFound == [exists |-> FALSE, data |-> <<>>]
File(data) == [exists |-> TRUE, data |-> data]

\* updates.gob: absent, holding the gob of a map, or holding bytes that do
\* not decode (truncated or partly written).
NoUpdatesFile == [state |-> "absent", keys |-> {}]
Corrupt == [state |-> "corrupt", keys |-> {}]

nil == "nil"

\* ---------------------------------------------------------- pure functions
RECURSIVE SumFrom(_, _)
SumFrom(str, i) == IF i > Len(str) THEN 0 ELSE str[i] + SumFrom(str, i + 1)

\* A sum that weighs every code point by its position in the string.
SumWeighted(str) == SumFrom([i \in 1..Len(str) |-> i * str[i]], 1)

\* The sum of the code points of a string (the loops of Approx).
Sum(str) == SumFrom(str, 1)

\* Approx dividing by the sum of its first argument whichever sum is greater.
ApproxOneSided(str1, str2) ==
    LET sum1 == Sum(str1)
        sum2 == Sum(str2)
    IN  IF sum1 # sum2 THEN [num |-> 100 * sum1 - sum2 * 100, den |-> sum1]
        ELSE [num |-> 0, den |-> 1]

\* Approx dividing the greater sum by the smaller one.
ApproxInverted(str1, str2) ==
    LET sum1 == Sum(str1)
        sum2 == Sum(str2)
    IN  IF sum1 > sum2 THEN [num |-> 100 * sum2 - sum1 * 100, den |-> sum2]
        ELSE IF sum2 > sum1 THEN [num |-> 100 * sum1 - sum2 * 100, den |-> sum1]
        ELSE [num |-> 0, den |-> 1]

\* distance.Approx as the exact fraction num/den.
Approx(str1, str2) ==
    LET sum1 == Sum(str1)
        sum2 == Sum(str2)
    IN  IF sum1 > sum2 THEN [num |-> 100 * sum1 - sum2 * 100, den |-> sum1]
        ELSE IF sum2 > sum1 THEN [num |-> 100 * sum2 - sum1 * 100, den |-> sum2]
        ELSE [num |-> 0, den |-> 1]

\* dist > p.Settings.Threshold
Exceeds(dist, threshold) == dist.num > threshold * dist.den

\* The rune that ranging over a string yields at position i.  A string is
\* the sequence of the code points of its well-formed characters; a byte
\* that is not part of well-formed UTF-8 is written as the negated byte, and
\* ranging over it yields U+FFFD.
DecodeRune(text, i) == IF text[i] < 0 THEN 65533 ELSE text[i]

\* The loop of strip.Numbers over node.Data: newSel += string(chr) for every
\* rune that is not a digit.
RECURSIVE NumbersFrom(_, _)
NumbersFrom(text, i) ==
    IF i > Len(text) THEN <<>>
    ELSE IF IsDigit(DecodeRune(text, i)) THEN NumbersFrom(text, i + 1)
    ELSE <<DecodeRune(text, i)>> \o NumbersFrom(text, i + 1)

\* strip.Numbers on the text of a document.
Numbers(text) == NumbersFrom(text, 1)

RECURSIVE StripFrom(_, _, _)
StripFrom(funcs, i, text) ==
    IF i > Len(funcs) THEN text
    ELSE StripFrom(funcs, i + 1,
                   IF funcs[i] = "numbers" THEN Numbers(text) ELSE text)

\* cascadia.Compile and regexp.Compile on the selectors and patterns used:
\* the error, and the literal text a pattern matches.
CompileSelector(sel) == IF sel = "h1[" THEN "cascadia.Compile" ELSE nil
Count40(pattern) == Cardinality({i \in 1..Len(pattern) : pattern[i] = 40})
Count41(pattern) == Cardinality({i \in 1..Len(pattern) : pattern[i] = 41})
Compile(pattern) == IF Count40(pattern) # Count41(pattern) THEN "regexp.Compile" ELSE nil
Literal(pattern) == SelectSeq(pattern, LAMBDA chr : chr \notin {40, 41})

\* re.FindAllString(selection, -1): the matches from left to right, each
\* search starting behind the previous match.
RECURSIVE FindAllFrom(_, _, _)
FindAllFrom(lit, text, i) ==
    IF i + Len(lit) - 1 > Len(text) THEN <<>>
    ELSE IF SubSeq(text, i, i + Len(lit) - 1) = lit
         THEN <<lit>> \o FindAllFrom(lit, text, i + Len(lit))
         ELSE FindAllFrom(lit, text, i + 1)
FindAllString(pattern, text) == FindAllFrom(Literal(pattern), text, 1)

\* The loop selection += res + settings.Newline.
RECURSIVE JoinFrom(_, _)
JoinFrom(result, i) ==
    IF i > Len(result) THEN <<>> ELSE result[i] \o <<10>> \o JoinFrom(result, i + 1)

\* ne.ReplaceAllString(selection, "")
RECURSIVE ReplaceAllFrom(_, _, _)
ReplaceAllFrom(lit, text, i) ==
    IF i > Len(text) THEN <<>>
    ELSE IF i + Len(lit) - 1 <= Len(text) /\ SubSeq(text, i, i + Len(lit) - 1) = lit
         THEN ReplaceAllFrom(lit, text, i + Len(lit))
         ELSE <<text[i]>> \o ReplaceAllFrom(lit, text, i + 1)
ReplaceAllString(pattern, text) == ReplaceAllFrom(Literal(pattern), text, 1)

Selected(text) == [selection |-> text, error |-> nil]
Failed(error) == [selection |-> <<>>, error |-> error]

\* makeSelection that removes the matches of Negexp before it keeps the
\* matches of Regexp.
makeSelectionNegexpFirst(s, doc) ==
    LET stripped == StripFrom(s.StripFuncs, 1, doc)
        excluded == IF s.Negexp # <<>> THEN ReplaceAllString(s.Negexp, stripped) ELSE stripped
    IN  IF s.Selection # "" /\ CompileSelector(s.Selection) # nil
        THEN Failed(CompileSelector(s.Selection))
        ELSE IF s.Negexp # <<>> /\ Compile(s.Negexp) # nil THEN Failed(Compile(s.Negexp))
        ELSE IF s.Regexp # <<>> /\ Compile(s.Regexp) # nil THEN Failed(Compile(s.Regexp))
        ELSE Selected(IF s.Regexp # <<>> THEN JoinFrom(FindAllString(s.Regexp, excluded), 1)
                      ELSE excluded)

\* Page.makeSelection: the CSS selection, the strip functions, Regexp and
\* Negexp; the selected text and the error.
makeSelection(s, doc) ==
    LET stripped == StripFrom(s.StripFuncs, 1, doc)
        included == IF s.Regexp # <<>> THEN JoinFrom(FindAllString(s.Regexp, stripped), 1)
                    ELSE stripped
    IN  IF s.Selection # "" /\ CompileSelector(s.Selection) # nil
        THEN Failed(CompileSelector(s.Selection))
        ELSE IF s.Regexp # <<>> /\ Compile(s.Regexp) # nil THEN Failed(Compile(s.Regexp))
        ELSE IF s.Negexp # <<>> /\ Compile(s.Negexp) # nil THEN Failed(Compile(s.Negexp))
        ELSE Selected(IF s.Negexp # <<>> THEN ReplaceAllString(s.Negexp, included)
                      ELSE included)

\* An html.Node: its Type, Data and Attr, and its children from FirstChild
\* along NextSibling.  Data and the attribute values are code points.
Node(type, data, attr, child) == [Type |-> type, Data |-> data, Attr |-> attr, Child |-> child]

\* strip.Numbers: the closure f on a node and, through it, on its children.
RECURSIVE NumbersNode(_)
NumbersNode(node) ==
    [node EXCEPT !.Data = IF node.Type = "TextNode" THEN Numbers(@) ELSE @,
                 !.Child = [i \in 1..Len(@) |-> NumbersNode(@[i])]]

\* Attrs that clears the attributes of the node it is called on only.
AttrsShallow(node) ==
    [node EXCEPT !.Attr = IF node.Type = "ElementNode" THEN <<>> ELSE @]

\* strip.Attrs: the closure f on a node and, through it, on its children.
RECURSIVE AttrsNode(_)
AttrsNode(node) ==
    [node EXCEPT !.Attr = IF node.Type = "ElementNode" THEN <<>> ELSE @,
                 !.Child = [i \in 1..Len(@) |-> AttrsNode(@[i])]]

\* strip.Scripts: on a script element the closure f assigns nil to its own
\* parameter and returns; on any other node it only visits the children.
\* No node is unlinked from its parent.
script == <<115, 99, 114, 105, 112, 116>>
RECURSIVE ScriptsNode(_)
ScriptsNode(node) ==
    IF node.Type = "ElementNode" /\ node.Data = script THEN node
    ELSE [node EXCEPT !.Child = [i \in 1..Len(@) |-> ScriptsNode(@[i])]]

\* unicode.IsSpace on the code points used, and strings.TrimSpace.
IsSpace(chr) == chr \in {9, 10, 11, 12, 13, 32}
RECURSIVE TrimLeft(_)
TrimLeft(text) ==
    IF text # <<>> /\ IsSpace(Head(text)) THEN TrimLeft(Tail(text)) ELSE text
RECURSIVE TrimRight(_)
TrimRight(text) ==
    IF text # <<>> /\ IsSpace(text[Len(text)])
    THEN TrimRight(SubSeq(text, 1, Len(text) - 1))
    ELSE text
TrimSpace(text) == TrimRight(TrimLeft(text))

\* settings.Newline
Newline == <<10>>

\* The closure f of strip.HTML: the trimmed Data of every text node followed
\* by a newline, the node first and then its children in order.
RECURSIVE FlattenFrom(_, _)
Flatten(node) ==
    (IF node.Type = "TextNode" THEN TrimSpace(node.Data) \o Newline ELSE <<>>)
        \o FlattenFrom(node.Child, 1)
FlattenFrom(children, i) ==
    IF i > Len(children) THEN <<>>
    ELSE Flatten(children[i]) \o FlattenFrom(children, i + 1)

\* html.Parse of a text without markup: a document node around
\* <html><head></head><body>, the text in one text node of the body.  White
\* space before the first other character is dropped by the parser.
Parse(text) ==
    LET body == IF TrimLeft(text) = <<>> THEN <<>>
                ELSE <<Node("TextNode", TrimLeft(text), <<>>, <<>>)>>
    IN  Node("DocumentNode", <<>>, <<>>,
             <<Node("ElementNode", <<104, 116, 109, 108>>, <<>>,
                    <<Node("ElementNode", <<104, 101, 97, 100>>, <<>>, <<>>),
                      Node("ElementNode", <<98, 111, 100, 121>>, <<>>, body)>>)>>)

\* strip.HTML: *doc = *stringNode, the parse of the flattened text.
HTMLNode(node) == Parse(Flatten(node))

\* strings.ToLower on the names used.
ToLower(name) ==
    CASE name = "Numbers" -> "numbers"
      [] name = "HTML" -> "html"
      [] OTHER -> name

\* The switch on stripFunc in makeSelection: it has no default case.
Dispatch(stripFunc, doc) ==
    CASE stripFunc = "numbers" -> NumbersNode(doc)
      [] stripFunc = "attrs" -> AttrsNode(doc)
      [] stripFunc = "html" -> HTMLNode(doc)
      [] stripFunc = "scripts" -> ScriptsNode(doc)
      [] OTHER -> doc

\* The loop over the strip functions taken from the last name to the first.
RECURSIVE StripNodeBackwards(_, _, _)
StripNodeBackwards(funcs, i, doc) ==
    IF i > Len(funcs) THEN doc
    ELSE Dispatch(ToLower(funcs[i]), StripNodeBackwards(funcs, i + 1, doc))

\* The loop of makeSelection over p.Settings.StripFuncs, on the tree of the
\* selection.  Between two functions the tree is rendered and parsed again.
RECURSIVE StripNodeFrom(_, _, _)
StripNodeFrom(funcs, i, doc) ==
    IF i > Len(funcs) THEN doc
    ELSE StripNodeFrom(funcs, i + 1, Dispatch(ToLower(funcs[i]), doc))

\* The whitelist of package ini.
stripFunctions == {"html", "attrs", "numbers", "scripts"}

\* ReadPages looking only at the first strip function of every section.
ReadPagesFirstName(ini) ==
    IF \E p \in DOMAIN ini : ini[p] # <<>> /\ ini[p][1] \notin stripFunctions
    THEN [pages |-> <<>>, error |-> "ini: invalid strip function"]
    ELSE [pages |-> [p \in DOMAIN ini |-> [StripFuncs |-> ini[p]]], error |-> nil]

\* ini.ReadPages, as far as the strip functions go: the pages with their
\* StripFuncs, or nil and the error of the first name it does not find in
\* the whitelist.
ReadPages(ini) ==
    IF \E p \in DOMAIN ini : \E i \in 1..Len(ini[p]) : ini[p][i] \notin stripFunctions
    THEN [pages |-> <<>>, error |-> "ini: invalid strip function"]
    ELSE [pages |-> [p \in DOMAIN ini |-> [StripFuncs |-> ini[p]]], error |-> nil]

\* MailConfigured without the test of the page's own address.
MailConfiguredSenderOnly(p) ==
    /\ SenderMail.AuthServer # ""
    /\ SenderMail.OutServer # ""
    /\ SenderMail.Address # ""

\* The condition under which check mails the update.
MailConfigured(p) ==
    /\ Settings[p].RecvMail # ""
    /\ SenderMail.AuthServer # ""
    /\ SenderMail.OutServer # ""
    /\ SenderMail.Address # ""

\* ioutil.WriteFile: the contents a file can have afterwards.  A failed call
\* either left the file alone (open failed) or truncated it and wrote only a
\* proper prefix of the data.
WriteOutcomes == {"ok", "open", "write"}
Prefixes(data) == {SubSeq(data, 1, k) : k \in 0..(Len(data) - 1)}
WriteFile(old, data, outcome) ==
    CASE outcome = "ok" -> {File(data)}
      [] outcome = "open" -> {old}
      [] outcome = "write" -> {File(d) : d \in Prefixes(data)}

\* encoding/gob of settings.Updates and back.
GobEncode(updates) == [state |-> "gob", keys |-> updates]
GobDecode(file) == file.keys

\* settings.LoadUpdates: the map after loading and the error returned.
LoadUpdates(file, updates) ==
    IF file.state = "absent" THEN [Updates |-> updates, error |-> nil]
    ELSE IF file.state = "corrupt" THEN [Updates |-> updates, error |-> "decode"]
    ELSE [Updates |-> updates \cup GobDecode(file), error |-> nil]

\* HTTP responses a download can meet.
StatusCodes == {200, 399, 400, 404}
Responses == [transport : {"ok", "eof", "err"}, status : StatusCodes, body : Docs]

\* Page.download: the parsed document, or the error.
download(resp) ==
    IF resp.transport = "eof" THEN [Node |-> <<>>, error |-> "Update was empty: "]
    ELSE IF resp.transport = "err" THEN [Node |-> <<>>, error |-> "Get "]
    ELSE IF resp.status >= 400 THEN [Node |-> <<>>, error |-> "status: "]
    ELSE [Node |-> resp.body, error |-> nil]

\* The responses of the two-page runs: a short or a longer text, or a 404.
FanoutResponses ==
    {resp \in Responses : /\ resp.transport = "ok"
                          /\ resp.status \in {200, 404}
                          /\ resp.body \in {<<97>>, <<97, 97>>}}

NoResult == [Node |-> <<>>, error |-> "none"]

\* The snapshot a check wrote as comparison file before it returned nil (a
\* first check or an update), as the next check of the page finds it.
Snapshot(text) == [written |-> TRUE, text |-> text]
NoSnapshot == [written |-> FALSE, text |-> <<>>]
\* The snapshot of a check that found the page updated and returned the error
\* of mail.Send or of settings.SaveUpdates: it is not empty and was not
\* written.
Detected(text) == [written |-> FALSE, text |-> text]
SaveErrors == {"create updates", "encode updates"}

\* Code points of the strings handed to distance.Approx: NUL, '1', 'a', 'b'.
Runes == {0, 49, 97, 98}
Strings == UNION {[1..n -> Runes] : n \in 0..MaxDocLen}

\* No score has been computed.
NoDist == [num |-> 0, den |-> 0]

\* makeSelection and ReadPages have not returned.
NoSelection == [selection |-> <<>>, error |-> "none"]
NotRead == [pages |-> <<>>, error |-> "none"]

\* Text of a text node: '1', 'a', a space, the Arabic-Indic digit one, and
\* the byte 0xE9 of a Latin-1 page that was parsed as UTF-8.
Texts == UNION {[1..n -> {49, 97, 32, 1633, -233}] : n \in 0..MaxDocLen}

\* The nodes of the documents handed to package strip: text nodes, a comment
\* with a digit, <h1 id="1"> elements around at most one of these, and a
\* <script> element around a text; a document is a <div> around at most two
\* nodes.
LeafNodes ==
    {Node("TextNode", t, <<>>, <<>>) : t \in Texts}
        \cup {Node("CommentNode", <<49>>, <<>>, <<>>)}
H1Nodes ==
    {Node("ElementNode", <<104, 49>>, <<[Key |-> <<105, 100>>, Val |-> <<49>>]>>, c) :
        c \in {<<>>} \cup {<<n>> : n \in LeafNodes}}
ScriptNodes == {Node("ElementNode", script, <<>>, <<Node("TextNode", <<97>>, <<>>, <<>>)>>)}
HtmlNodes == LeafNodes \cup H1Nodes \cup ScriptNodes
HtmlDocs ==
    {Node("ElementNode", <<100, 105, 118>>, <<>>, c) :
        c \in {<<>>} \cup {<<n>> : n \in HtmlNodes}
                     \cup {<<n, m>> : n \in HtmlNodes, m \in H1Nodes}}
NoNode == Node("DocumentNode", <<>>, <<>>, <<>>)

\* The documents and the strip lists of the runs of the whole loop: texts of
\* at most one character; names as pages.ini may spell them.
RECURSIVE ShortTexts(_)
ShortTexts(node) ==
    /\ node.Type = "TextNode" => Len(node.Data) <= 1
    /\ \A i \in 1..Len(node.Child) : ShortTexts(node.Child[i])
PipelineDocs == {d \in HtmlDocs : ShortTexts(d)}
StripNames == {"numbers", "attrs", "html", "scripts", "Numbers", "bogus"}
PipelineLists == UNION {[1..n -> StripNames] : n \in 0..MaxApplied}

\* ----------------------------------------------------------- initial state
\* The state of a fresh installation when the daemon has started: no files,
\* LoadUpdates found no updates.gob, no goroutine runs.
Fresh ==
    /\ cache = [f \in Filenames |-> NotFound]
    /\ updatesFile = NoUpdatesFile
    /\ Updates = LoadUpdates(NoUpdatesFile, {}).Updates
    /\ pc = [p \in Pages |-> "idle"]
    /\ r = [p \in Pages |-> NoResult]
    /\ sender = [p \in Pages |-> "none"]
    /\ selection = [p \in Pages |-> <<>>]
    /\ err = [p \in Pages |-> "none"]
    /\ verdict = [p \in Pages |-> "none"]
    /\ base0 = [p \in Pages |-> NotFound]
    /\ debugWritten = [p \in Pages |-> FALSE]
    /\ updates0 = {}
    /\ slow = [p \in Pages |-> FALSE]
    /\ mailed = [p \in Pages |-> FALSE]
    /\ racing = [p \in Pages |-> FALSE]
    /\ crashed = FALSE
    /\ cycle = 0
    /\ numChecks = 0
    /\ logged = {}
    /\ succeeded = {}
    /\ last = [p \in Pages |-> NoSnapshot]

\* No call of distance.Approx or of package strip is followed.
NoApprox ==
    /\ approxStr1 = <<>> /\ approxStr2 = <<>>
    /\ approxDist = NoDist /\ approxRev = NoDist
NoStrip == stripDoc = NoNode /\ stripDoc0 = NoNode /\ applied = <<>>
NoSelect == htmlNode = <<>> /\ made = NoSelection
NoIni == iniStrip = [p \in Pages |-> <<>>] /\ readPages = NotRead
NoCalls == NoApprox /\ NoStrip /\ NoSelect /\ NoIni

\* pages.ini of the runs with two pages: p1 mails its updates, p2 does not.
FanoutSettings ==
    [p \in Pages |-> [Threshold |-> 0,
                      RecvMail |-> IF p = "p1" THEN "op@example.org" ELSE "",
                      StripFuncs |-> <<"numbers">>,
                      Selection |-> "", Regexp |-> <<>>, Negexp |-> <<>>]]

\* Two pages are watched.
Init ==
    /\ ReqUrl = PagesIni
    /\ Settings = FanoutSettings
    /\ SenderMail = SetSenderMail
    /\ Fresh
    /\ NoCalls

\* The settings of a page without selector and patterns.
PlainSettings ==
    {s \in PageSettings : s.Selection = "" /\ s.Regexp = <<>> /\ s.Negexp = <<>>}

\* The settings of a page that sets at most one of selector and patterns
\* and strips nothing.
ExtractSettings ==
    {s \in PageSettings :
        /\ s.Threshold = 0 /\ s.StripFuncs = <<>>
        /\ \/ s.Regexp = <<>> /\ s.Negexp = <<>>
           \/ s.Selection = "" /\ s.Negexp = <<>>
           \/ s.Selection = "" /\ s.Regexp = <<>>}

\* One page, p1, is watched, with such settings.
InitExtract ==
    /\ ReqUrl = PagesIni
    /\ Settings \in {s \in [Pages -> ExtractSettings] : s["p2"] = s["p1"]}
    /\ SenderMail = SetSenderMail
    /\ Fresh
    /\ NoCalls

\* The settings of a page without selector, patterns and strip functions that
\* counts every difference as an update and mails it.
RetrySettings ==
    {s \in PlainSettings : s.Threshold = 0 /\ s.StripFuncs = <<>> /\ s.RecvMail # ""}

\* One page, p1, is watched, with such settings.
InitRetry ==
    /\ ReqUrl = PagesIni
    /\ Settings \in {s \in [Pages -> RetrySettings] : s["p2"] = s["p1"]}
    /\ SenderMail = SetSenderMail
    /\ Fresh
    /\ NoCalls

\* One page, p1, is watched, with any such settings.
InitPage ==
    /\ ReqUrl = PagesIni
    /\ Settings \in {s \in [Pages -> PlainSettings] : s["p2"] = s["p1"]}
    /\ SenderMail \in SenderMails
    /\ Fresh
    /\ NoCalls

approxCalls == <<approxStr1, approxStr2, approxDist, approxRev>>
stripCalls == <<stripDoc, stripDoc0, applied>>
selectCalls == <<htmlNode, made>>
iniCalls == <<iniStrip, readPages>>
calls == <<approxCalls, stripCalls, selectCalls, iniCalls>>
config == <<ReqUrl, Settings, SenderMail, updates0, calls>>
collector == <<cycle, numChecks, logged>>

\* check returns e: Check sends it on the error channel next.
Return(p, e) ==
    /\ err' = [err EXCEPT ![p] = e]
    /\ pc' = [pc EXCEPT ![p] = "report"]
    /\ succeeded' = IF e = nil THEN succeeded \cup {p} ELSE succeeded
    /\ UNCHANGED last

Goto(p, label) ==
    /\ pc' = [pc EXCEPT ![p] = label]
    /\ UNCHANGED <<err, succeeded, last>>

\* ForceUpdate whose collector waits for one result less than checks started.
ForceUpdateCountsShort(pages, bound) ==
    /\ ~crashed
    /\ cycle < bound
    /\ numChecks = 0
    /\ \A p \in Pages : pc[p] = "idle"
    /\ pc' = [p \in Pages |-> IF p \in pages THEN "download" ELSE "idle"]
    /\ numChecks' = Cardinality(pages) - 1
    /\ cycle' = cycle + 1
    /\ logged' = {}
    /\ base0' = [p \in Pages |-> IF p \in pages THEN cache[UrlAsFilename(p)] ELSE NotFound]
    /\ updates0' = Updates
    /\ UNCHANGED <<ReqUrl, Settings, SenderMail, cache, Updates, updatesFile, r, sender, selection,
                   err, verdict, debugWritten, slow, mailed, racing, crashed, succeeded,
                   last, calls>>

\* ForceUpdate: start a Check goroutine per page and the collector goroutine,
\* and return nil.
ForceUpdate(pages, bound) ==
    /\ ~crashed
    /\ cycle < bound
    /\ numChecks = 0
    /\ \A p \in Pages : pc[p] = "idle"
    /\ pc' = [p \in Pages |-> IF p \in pages THEN "download" ELSE "idle"]
    /\ numChecks' = Cardinality(pages)
    /\ cycle' = cycle + 1
    /\ logged' = {}
    /\ base0' = [p \in Pages |-> IF p \in pages THEN cache[UrlAsFilename(p)] ELSE NotFound]
    /\ updates0' = Updates
    /\ UNCHANGED <<ReqUrl, Settings, SenderMail, cache, Updates, updatesFile, r, sender, selection,
                   err, verdict, debugWritten, slow, mailed, racing, crashed, succeeded,
                   last, calls>>

\* errWrapDownload calls p.download() before it returns the channel: check
\* waits here for as long as the download takes.
Download(p, responses) ==
    /\ ~crashed
    /\ pc[p] = "download"
    /\ \E resp \in responses, d \in 0..MaxFetchTime :
        /\ r' = [r EXCEPT ![p] = download(resp)]
        /\ slow' = [slow EXCEPT ![p] = d > TimeoutDuration]
    /\ sender' = [sender EXCEPT ![p] = "sending"]
    /\ Goto(p, "select")
    /\ UNCHANGED <<config, cache, Updates, updatesFile, selection, verdict,
                   base0, debugWritten, mailed, racing, crashed, collector>>

\* The select of check, first case: the result arrives on the channel.
SelectRecv(p) ==
    /\ ~crashed
    /\ pc[p] = "select"
    /\ IF r[p].error # nil
       THEN Return(p, r[p].error \o UrlString(p))
       ELSE Goto(p, "extract")
    /\ sender' = [sender EXCEPT ![p] = "none"]
    /\ slow' = [slow EXCEPT ![p] = FALSE]
    /\ UNCHANGED <<config, cache, Updates, updatesFile, r, selection, verdict,
                   base0, debugWritten, mailed, racing, crashed, collector>>

\* The select of check, second case: time.After, started when the select is
\* entered, fires before the sending goroutine has run.
SelectTimeout(p) ==
    /\ ~crashed
    /\ pc[p] = "select"
    /\ Return(p, "timeout: " \o UrlString(p))
    /\ slow' = [slow EXCEPT ![p] = FALSE]
    /\ UNCHANGED <<config, sender, cache, Updates, updatesFile, r, selection, verdict,
                   base0, debugWritten, mailed, racing, crashed, collector>>

\* Extract without the test for an empty selection.
ExtractUntested(p) ==
    /\ ~crashed
    /\ pc[p] = "extract"
    /\ \E debug \in WriteOutcomes :
        LET sel == makeSelection(Settings[p], r[p].Node)
        IN  /\ r' = [r EXCEPT ![p] = NoResult]
            /\ IF sel.error # nil
               THEN Return(p, sel.error) /\ UNCHANGED <<selection, debugWritten>>
               ELSE /\ selection' = [selection EXCEPT ![p] = sel.selection]
                    /\ debugWritten' = [debugWritten EXCEPT ![p] = debug # "open"]
                    /\ IF debug # "ok" THEN Return(p, "write debug cache")
                       ELSE Goto(p, "read")
    /\ UNCHANGED <<config, sender, cache, Updates, updatesFile, verdict, base0, slow,
                   mailed, racing, crashed, collector>>

\* Extract that writes the selection to the comparison file at once.
ExtractWritesCache(p) ==
    /\ ~crashed
    /\ pc[p] = "extract"
    /\ \E debug \in WriteOutcomes :
        LET sel == makeSelection(Settings[p], r[p].Node)
        IN  /\ r' = [r EXCEPT ![p] = NoResult]
            /\ IF sel.error # nil
               THEN Return(p, sel.error) /\ UNCHANGED <<selection, debugWritten, cache>>
               ELSE /\ selection' = [selection EXCEPT ![p] = sel.selection]
                    /\ debugWritten' = [debugWritten EXCEPT ![p] = debug # "open"]
                    /\ cache' = [cache EXCEPT ![UrlAsFilename(p)] = File(sel.selection)]
                    /\ IF debug # "ok" THEN Return(p, "write debug cache")
                       ELSE IF Len(sel.selection) = 0
                       THEN Return(p, "Update was empty. URL: " \o UrlString(p))
                       ELSE Goto(p, "read")
    /\ UNCHANGED <<config, sender, Updates, updatesFile, verdict, base0, slow,
                   mailed, racing, crashed, collector>>

\* Extract that empties the comparison file when makeSelection fails.
ExtractTruncates(p) ==
    /\ ~crashed
    /\ pc[p] = "extract"
    /\ \E debug \in WriteOutcomes :
        LET sel == makeSelection(Settings[p], r[p].Node)
        IN  /\ r' = [r EXCEPT ![p] = NoResult]
            /\ IF sel.error # nil
               THEN /\ Return(p, sel.error)
                    /\ cache' = [cache EXCEPT ![UrlAsFilename(p)] = File(<<>>)]
                    /\ UNCHANGED <<selection, debugWritten>>
               ELSE /\ selection' = [selection EXCEPT ![p] = sel.selection]
                    /\ debugWritten' = [debugWritten EXCEPT ![p] = debug # "open"]
                    /\ UNCHANGED cache
                    /\ IF debug # "ok" THEN Return(p, "write debug cache")
                       ELSE IF Len(sel.selection) = 0
                       THEN Return(p, "Update was empty. URL: " \o UrlString(p))
                       ELSE Goto(p, "read")
    /\ UNCHANGED <<config, sender, Updates, updatesFile, verdict, base0, slow,
                   mailed, racing, crashed, collector>>

\* makeSelection, the debug copy and the test for an empty selection.
Extract(p) ==
    /\ ~crashed
    /\ pc[p] = "extract"
    /\ \E debug \in WriteOutcomes :
        LET sel == makeSelection(Settings[p], r[p].Node)
        IN  /\ r' = [r EXCEPT ![p] = NoResult]
            /\ IF sel.error # nil
               THEN Return(p, sel.error) /\ UNCHANGED <<selection, debugWritten>>
               ELSE /\ selection' = [selection EXCEPT ![p] = sel.selection]
                    /\ debugWritten' = [debugWritten EXCEPT ![p] = debug # "open"]
                    /\ IF debug # "ok" THEN Return(p, "write debug cache")
                       ELSE IF Len(sel.selection) = 0
                       THEN Return(p, "Update was empty. URL: " \o UrlString(p))
                       ELSE Goto(p, "read")
    /\ UNCHANGED <<config, sender, cache, Updates, updatesFile, verdict, base0, slow,
                   mailed, racing, crashed, collector>>

\* compare with the test for a missing comparison file left out: the missing
\* file counts as the empty text.
compareMissingAsEmpty(buf, sel, threshold) ==
    IF Exceeds(Approx(buf.data, sel), threshold) THEN "changed" ELSE "unchanged"

\* compare with >= in place of >.
compareAtLeast(buf, sel, threshold) ==
    LET dist == Approx(buf.data, sel)
    IN  IF ~buf.exists THEN "new"
        ELSE IF dist.num >= threshold * dist.den THEN "changed"
        ELSE "unchanged"

\* The branch check takes on the comparison file buf and the selection.
compare(buf, sel, threshold) ==
    IF ~buf.exists THEN "new"
    ELSE IF Exceeds(Approx(buf.data, sel), threshold) THEN "changed"
    ELSE "unchanged"

\* ReadCache that writes the selection to the comparison file when the page
\* has not been updated.
ReadCacheRefreshes(p) ==
    /\ ~crashed
    /\ pc[p] = "read"
    /\ \E read \in {"ok", "err"} :
        LET branch == compare(cache[UrlAsFilename(p)], selection[p], Settings[p].Threshold)
        IN  IF read = "err"
            THEN Return(p, "read cache") /\ UNCHANGED <<verdict, cache>>
            ELSE /\ verdict' = [verdict EXCEPT ![p] = branch]
                 /\ CASE branch = "new" -> Goto(p, "first") /\ UNCHANGED cache
                      [] branch = "changed" -> Goto(p, "insert") /\ UNCHANGED cache
                      [] branch = "unchanged" ->
                            /\ Return(p, nil)
                            /\ cache' = [cache EXCEPT ![UrlAsFilename(p)] = File(selection[p])]
    /\ UNCHANGED <<config, sender, Updates, updatesFile, r, selection, base0, debugWritten,
                   slow, mailed, racing, crashed, collector>>

\* ioutil.ReadFile of the comparison file and the branch on the distance.
ReadCache(p) ==
    /\ ~crashed
    /\ pc[p] = "read"
    /\ \E read \in {"ok", "err"} :
        LET branch == compare(cache[UrlAsFilename(p)], selection[p], Settings[p].Threshold)
        IN  IF read = "err"
            THEN Return(p, "read cache") /\ UNCHANGED verdict
            ELSE /\ verdict' = [verdict EXCEPT ![p] = branch]
                 /\ CASE branch = "new" -> Goto(p, "first")
                      [] branch = "changed" -> Goto(p, "insert")
                      [] branch = "unchanged" -> Return(p, nil)
    /\ UNCHANGED <<config, sender, cache, Updates, updatesFile, r, selection, base0, debugWritten,
                   slow, mailed, racing, crashed, collector>>

\* The page has not been checked before: the comparison file, the read file
\* and the debug read file are written, in this order.
FirstCheck(p) ==
    /\ ~crashed
    /\ pc[p] = "first"
    /\ \E o1, o2, o3 \in WriteOutcomes :
        LET name == UrlAsFilename(p)
        IN  /\ cache' \in {[cache EXCEPT ![name] = c] :
                              c \in WriteFile(cache[name], selection[p], o1)}
            /\ IF o1 # "ok" THEN Return(p, "write cache")
               ELSE IF o2 # "ok" THEN Return(p, "write read")
               ELSE IF o3 # "ok" THEN Return(p, "write debug read")
               ELSE Return(p, nil)
    /\ UNCHANGED <<config, sender, Updates, updatesFile, r, selection, verdict, base0,
                   debugWritten, slow,
                   mailed, racing, crashed, collector>>

\* Operations on settings.Updates take time: a goroutine is inside one from
\* its Begin step to its End step.
Inside == {"inInsert", "inDelete", "inSave"}
Writing == {"inInsert", "inDelete"}

\* p enters operation op; it races with every other goroutine that is inside
\* an operation when one of the two writes the map.
Begin(p, op) ==
    LET clash == {q \in Pages \ {p} : pc[q] \in Inside /\ (op \in Writing \/ pc[q] \in Writing)}
    IN  /\ racing' = [q \in Pages |-> IF q = p THEN clash # {} ELSE racing[q] \/ q \in clash]
        /\ Goto(p, op)

\* The map a write leaves: the intended one, or any map at all after a race.
MapAfter(p, intended) == IF racing[p] THEN SUBSET Urls ELSE {intended}

\* settings.Updates[u] = true
BeginInsert(p) ==
    /\ ~crashed
    /\ pc[p] = "insert"
    /\ Begin(p, "inInsert")
    /\ UNCHANGED <<config, sender, cache, Updates, updatesFile, r, selection, verdict,
                   base0, debugWritten, slow, mailed, crashed, collector>>

EndInsert(p) ==
    /\ ~crashed
    /\ pc[p] = "inInsert"
    /\ Updates' \in MapAfter(p, Updates \cup {UrlString(p)})
    /\ racing' = [racing EXCEPT ![p] = FALSE]
    /\ Goto(p, IF MailConfigured(p) THEN "mail" ELSE "save")
    /\ UNCHANGED <<config, sender, cache, updatesFile, r, selection, verdict, base0, debugWritten,
                   slow, mailed, crashed, collector>>

\* Mail with the delete from settings.Updates ahead of mail.Send.
MailDeletesFirst(p) ==
    /\ ~crashed
    /\ pc[p] = "mail"
    /\ Updates' = Updates \ {UrlString(p)}
    /\ \E send \in {"ok", "err"} :
        IF send = "ok"
        THEN Goto(p, "save") /\ mailed' = [mailed EXCEPT ![p] = TRUE]
        ELSE Return(p, "mail") /\ UNCHANGED mailed
    /\ UNCHANGED <<config, sender, cache, updatesFile, r, selection, verdict,
                   base0, debugWritten, slow, racing, crashed, collector>>

\* mail.Send of the selection made without strip functions and regexp.
Mail(p) ==
    /\ ~crashed
    /\ pc[p] = "mail"
    /\ \E send \in {"ok", "err"} :
        IF send = "ok"
        THEN Goto(p, "delete") /\ mailed' = [mailed EXCEPT ![p] = TRUE]
        ELSE Return(p, "mail") /\ UNCHANGED mailed
    /\ UNCHANGED <<config, sender, cache, Updates, updatesFile, r, selection, verdict,
                   base0, debugWritten, slow, racing, crashed, collector>>

\* delete(settings.Updates, u)
BeginDelete(p) ==
    /\ ~crashed
    /\ pc[p] = "delete"
    /\ Begin(p, "inDelete")
    /\ UNCHANGED <<config, sender, cache, Updates, updatesFile, r, selection, verdict,
                   base0, debugWritten, slow, mailed, crashed, collector>>

EndDelete(p) ==
    /\ ~crashed
    /\ pc[p] = "inDelete"
    /\ Updates' \in MapAfter(p, Updates \ {UrlString(p)})
    /\ racing' = [racing EXCEPT ![p] = FALSE]
    /\ Goto(p, "save")
    /\ UNCHANGED <<config, sender, cache, updatesFile, r, selection, verdict, base0, debugWritten,
                   slow, mailed, crashed, collector>>

\* BeginSave of a check that has written the comparison file before it saves
\* the updates.
BeginSaveAfterWrite(p) ==
    /\ ~crashed
    /\ pc[p] = "save"
    /\ cache' = [cache EXCEPT ![UrlAsFilename(p)] = File(selection[p])]
    /\ \E create \in {"ok", "err"} :
        IF create = "ok"
        THEN updatesFile' = Corrupt /\ Begin(p, "inSave")
        ELSE UNCHANGED <<updatesFile, racing>> /\ Return(p, "create updates")
    /\ UNCHANGED <<config, sender, Updates, r, selection, verdict, base0, debugWritten, slow,
                   mailed, crashed, collector>>

\* settings.SaveUpdates: os.Create truncates updates.gob, then the encoder
\* reads the map and writes it.
BeginSave(p) ==
    /\ ~crashed
    /\ pc[p] = "save"
    /\ \E create \in {"ok", "err"} :
        IF create = "ok"
        THEN updatesFile' = Corrupt /\ Begin(p, "inSave")
        ELSE UNCHANGED <<updatesFile, racing>> /\ Return(p, "create updates")
    /\ UNCHANGED <<config, sender, cache, Updates, r, selection, verdict, base0, debugWritten, slow,
                   mailed, crashed, collector>>

EndSave(p) ==
    /\ ~crashed
    /\ pc[p] = "inSave"
    /\ \E encode \in {"ok", "err"} :
        IF encode = "ok"
        THEN /\ updatesFile' \in {GobEncode(m) : m \in MapAfter(p, Updates)}
                                  \cup (IF racing[p] THEN {Corrupt} ELSE {})
             /\ Goto(p, "writeCache")
        ELSE /\ updatesFile' \in {updatesFile, Corrupt}
             /\ Return(p, "encode updates")
    /\ racing' = [racing EXCEPT ![p] = FALSE]
    /\ UNCHANGED <<config, sender, cache, Updates, r, selection, verdict, base0, debugWritten, slow,
                   mailed, crashed, collector>>

\* A map operation that overlaps another one can abort the whole process
\* ("fatal error: concurrent map writes").
Crash(p) ==
    /\ ~crashed
    /\ pc[p] \in Inside
    /\ racing[p]
    /\ crashed' = TRUE
    /\ UNCHANGED <<config, sender, cache, Updates, updatesFile, pc, r, selection, err,
                   verdict, base0, debugWritten, slow, mailed, racing, collector, succeeded,
                   last>>

\* WriteCache that opens the comparison file for appending instead of
\* truncating it.
WriteCacheAppends(p) ==
    /\ ~crashed
    /\ pc[p] = "writeCache"
    /\ \E o \in WriteOutcomes :
        LET name == UrlAsFilename(p)
        IN  /\ cache' \in {[cache EXCEPT ![name] = c] :
                              c \in WriteFile(cache[name], cache[name].data \o selection[p], o)}
            /\ Return(p, IF o = "ok" THEN nil ELSE "write cache")
    /\ UNCHANGED <<config, sender, Updates, updatesFile, r, selection, verdict, base0, debugWritten,
                   slow, mailed, racing, crashed, collector>>

\* WriteCache that returns nil without writing the comparison file.
WriteCacheSkipped(p) ==
    /\ ~crashed
    /\ pc[p] = "writeCache"
    /\ Return(p, nil)
    /\ UNCHANGED <<config, sender, cache, Updates, updatesFile, r, selection, verdict,
                   base0, debugWritten,
                   slow, mailed, racing, crashed, collector>>

\* The page was updated: the comparison file is written last.
WriteCache(p) ==
    /\ ~crashed
    /\ pc[p] = "writeCache"
    /\ \E o \in WriteOutcomes :
        LET name == UrlAsFilename(p)
        IN  /\ cache' \in {[cache EXCEPT ![name] = c] :
                              c \in WriteFile(cache[name], selection[p], o)}
            /\ Return(p, IF o = "ok" THEN nil ELSE "write cache")
    /\ UNCHANGED <<config, sender, Updates, updatesFile, r, selection, verdict, base0, debugWritten,
                   slow, mailed, racing, crashed, collector>>

\* Check sends the result of check on the unbuffered error channel and the
\* collector goroutine of ForceUpdate receives it and logs an error.  The
\* locals of the finished check are gone afterwards.
Collect(p) ==
    /\ ~crashed
    /\ pc[p] = "report"
    /\ numChecks > 0
    /\ numChecks' = numChecks - 1
    /\ logged' = IF err[p] # nil THEN logged \cup {p} ELSE logged
    /\ pc' = [pc EXCEPT ![p] = "idle"]
    /\ r' = [r EXCEPT ![p] = NoResult]
    /\ selection' = [selection EXCEPT ![p] = <<>>]
    /\ err' = [err EXCEPT ![p] = "none"]
    /\ verdict' = [verdict EXCEPT ![p] = "none"]
    /\ base0' = [base0 EXCEPT ![p] = NotFound]
    /\ debugWritten' = [debugWritten EXCEPT ![p] = FALSE]
    /\ slow' = [slow EXCEPT ![p] = FALSE]
    /\ mailed' = [mailed EXCEPT ![p] = FALSE]
    /\ sender' = [sender EXCEPT ![p] = "none"]
    /\ UNCHANGED <<config, cache, Updates, updatesFile, racing, crashed, cycle, succeeded>>

\* History of a page over its checks: when a check is collected that returned
\* nil after a first check or an update, the snapshot it stored is remembered
\* for the next check of the page.
Remember(p) ==
    last' = [last EXCEPT ![p] = IF err[p] = nil /\ verdict[p] \in {"new", "changed"}
                                THEN Snapshot(selection[p]) ELSE NoSnapshot]

\* The same history, which also remembers the snapshot of an update that was
\* not stored because the mail or the save of the updates failed.
RememberDetected(p) ==
    last' = [last EXCEPT ![p] =
                IF err[p] = nil /\ verdict[p] \in {"new", "changed"} THEN Snapshot(selection[p])
                ELSE IF verdict[p] = "changed" /\ err[p] \in {"mail"} \cup SaveErrors
                THEN Detected(selection[p])
                ELSE NoSnapshot]

\* The steps of check itself.
Steps(p) ==
    \/ SelectRecv(p)
    \/ SelectTimeout(p)
    \/ Extract(p)
    \/ ReadCache(p)
    \/ FirstCheck(p)
    \/ BeginInsert(p)
    \/ EndInsert(p)
    \/ Mail(p)
    \/ BeginDelete(p)
    \/ EndDelete(p)
    \/ BeginSave(p)
    \/ EndSave(p)
    \/ WriteCache(p)

\* The steps of a Check goroutine when all pages are checked together; the
\* history of the pages is not kept there.
Check(p) ==
    \/ Steps(p)
    \/ Collect(p) /\ UNCHANGED last

\* The steps of a Check goroutine when one page is followed over its checks.
CheckPage(p) ==
    \/ Steps(p)
    \/ Collect(p) /\ Remember(p)

Next ==
    \/ ForceUpdate(Pages, MaxRounds)
    \/ \E p \in Pages :
        \/ Download(p, FanoutResponses)
        \/ Check(p)
        \/ Crash(p)

NextPage ==
    \/ ForceUpdate({"p1"}, MaxCycles)
    \/ \E p \in Pages :
        \/ Download(p, Responses)
        \/ CheckPage(p)

\* The steps of a Check goroutine when one page is followed over its checks
\* and the updates that were found and not stored are remembered too.
CheckRetry(p) ==
    \/ Steps(p)
    \/ Collect(p) /\ RememberDetected(p)

NextRetry ==
    \/ ForceUpdate({"p1"}, MaxCycles)
    \/ \E p \in Pages :
        \/ Download(p, Responses)
        \/ CheckRetry(p)

\* Two pages are watched whose URLs may give the same file name.
SharedInis ==
    {[PagesIni EXCEPT !["p2"] = u] :
        u \in {PagesIni["p2"],
               [Scheme |-> "http", Host |-> "a.org", Path |-> "/ne", RawQuery |-> "ws"],
               [Scheme |-> "http", Host |-> "a.org", Path |-> "/news", RawQuery |-> "p=1"]}}

InitShared ==
    /\ ReqUrl \in SharedInis
    /\ Settings = FanoutSettings
    /\ SenderMail = SetSenderMail
    /\ Fresh
    /\ NoCalls

\* The state of the checks, which a call of distance.Approx or of package
\* strip by itself leaves alone.
checks == <<ReqUrl, Settings, SenderMail, cache, Updates, updatesFile, pc, r, sender,
            selection, err, verdict, base0, debugWritten, updates0, slow, mailed, racing, crashed,
            cycle, numChecks, logged, succeeded, last>>

\* distance.Approx is called on two strings.
InitApprox ==
    /\ ReqUrl = PagesIni
    /\ Settings = FanoutSettings
    /\ SenderMail = SetSenderMail
    /\ Fresh
    /\ approxStr1 \in Strings /\ approxStr2 \in Strings
    /\ approxDist = NoDist /\ approxRev = NoDist
    /\ NoStrip /\ NoSelect /\ NoIni

CallApprox ==
    /\ approxDist = NoDist
    /\ approxDist' = Approx(approxStr1, approxStr2)
    /\ UNCHANGED <<checks, approxStr1, approxStr2, approxRev, stripCalls, selectCalls, iniCalls>>

\* The same call with the arguments swapped.
CallApproxSwapped ==
    /\ approxRev = NoDist
    /\ approxRev' = Approx(approxStr2, approxStr1)
    /\ UNCHANGED <<checks, approxStr1, approxStr2, approxDist, stripCalls, selectCalls, iniCalls>>

NextApprox == CallApprox \/ CallApproxSwapped

\* The functions of package strip are called on a document.
InitStrip ==
    /\ ReqUrl = PagesIni
    /\ Settings = FanoutSettings
    /\ SenderMail = SetSenderMail
    /\ Fresh
    /\ NoApprox /\ NoSelect /\ NoIni
    /\ stripDoc \in HtmlDocs
    /\ stripDoc0 = stripDoc
    /\ applied = <<>>

\* One function is called on the document, up to MaxApplied times.
MayApply(name) ==
    /\ Len(applied) < MaxApplied
    /\ \A i \in 1..Len(applied) : applied[i] = name

\* strip.Numbers(doc)
CallNumbers ==
    /\ MayApply("numbers")
    /\ stripDoc' = NumbersNode(stripDoc)
    /\ applied' = Append(applied, "numbers")
    /\ UNCHANGED <<checks, approxCalls, stripDoc0, selectCalls, iniCalls>>

\* strip.Attrs(doc)
CallAttrs ==
    /\ MayApply("attrs")
    /\ stripDoc' = AttrsNode(stripDoc)
    /\ applied' = Append(applied, "attrs")
    /\ UNCHANGED <<checks, approxCalls, stripDoc0, selectCalls, iniCalls>>

\* strip.Scripts(doc)
CallScripts ==
    /\ MayApply("scripts")
    /\ stripDoc' = ScriptsNode(stripDoc)
    /\ applied' = Append(applied, "scripts")
    /\ UNCHANGED <<checks, approxCalls, stripDoc0, selectCalls, iniCalls>>

\* strip.HTML(doc)
CallHTML ==
    /\ MayApply("html")
    /\ stripDoc' = HTMLNode(stripDoc)
    /\ applied' = Append(applied, "html")
    /\ UNCHANGED <<checks, approxCalls, stripDoc0, selectCalls, iniCalls>>

NextStrip == CallNumbers \/ CallAttrs \/ CallScripts \/ CallHTML

\* The strip loop of makeSelection runs on a document with the strip list
\* of page p1.
InitPipeline ==
    /\ ReqUrl = PagesIni
    /\ \E funcs \in PipelineLists :
          Settings = [p \in Pages |-> [FanoutSettings[p] EXCEPT !.StripFuncs = funcs]]
    /\ SenderMail = SetSenderMail
    /\ Fresh
    /\ NoApprox /\ NoSelect /\ NoIni
    /\ stripDoc \in PipelineDocs
    /\ stripDoc0 = stripDoc
    /\ applied = <<>>

CallStripFuncs ==
    /\ applied = <<>>
    /\ Settings["p1"].StripFuncs # <<>>
    /\ stripDoc' = StripNodeFrom(Settings["p1"].StripFuncs, 1, stripDoc)
    /\ applied' = Settings["p1"].StripFuncs
    /\ UNCHANGED <<checks, approxCalls, stripDoc0, selectCalls, iniCalls>>

NextPipeline == CallStripFuncs

\* The texts handed to makeSelection by itself: '1' and 'a'.
SelectTexts == UNION {[1..n -> Chars] : n \in 0..(MaxDocLen + 1)}

\* Page.makeSelection is called on a document with the settings of page p1.
InitSelect ==
    /\ ReqUrl = PagesIni
    /\ \E s \in PageSettings :
          /\ s.Threshold = 0 /\ s.RecvMail = ""
          /\ Settings = [p \in Pages |-> s]
    /\ SenderMail = SetSenderMail
    /\ Fresh
    /\ NoApprox /\ NoStrip /\ NoIni
    /\ htmlNode \in SelectTexts
    /\ made = NoSelection

CallMakeSelection ==
    /\ made = NoSelection
    /\ made' = makeSelection(Settings["p1"], htmlNode)
    /\ UNCHANGED <<checks, approxCalls, stripCalls, htmlNode, iniCalls>>

NextSelect == CallMakeSelection

\* ini.ReadPages is called on a pages.ini with two sections.
InitIni ==
    /\ ReqUrl = PagesIni
    /\ Settings = FanoutSettings
    /\ SenderMail = SetSenderMail
    /\ Fresh
    /\ NoApprox /\ NoStrip /\ NoSelect
    /\ iniStrip \in [Pages -> PipelineLists]
    /\ readPages = NotRead

CallReadPages ==
    /\ readPages = NotRead
    /\ readPages' = ReadPages(iniStrip)
    /\ UNCHANGED <<checks, approxCalls, stripCalls, selectCalls, iniStrip>>

NextIni == CallReadPages

Spec == Init /\ [][Next]_vars

SpecShared == InitShared /\ [][Next]_vars

SpecApprox == InitApprox /\ [][NextApprox]_vars

SpecStrip == InitStrip /\ [][NextStrip]_vars

SpecPipeline == InitPipeline /\ [][NextPipeline]_vars

SpecSelect == InitSelect /\ [][NextSelect]_vars

SpecIni == InitIni /\ [][NextIni]_vars

SpecPage == InitPage /\ [][NextPage]_vars

SpecExtract == InitExtract /\ [][NextPage]_vars

SpecRetry == InitRetry /\ [][NextRetry]_vars

\* The Go scheduler runs every goroutine that can run: a Check goroutine that
\* can take a step takes one, and the collector receives a result that is
\* being sent.  Nothing forces the runtime to abort the process.
SpecLive ==
    /\ Init
    /\ [][Next]_vars
    /\ \A p \in Pages : WF_vars(Download(p, FanoutResponses) \/ Check(p))

\* ------------------------------------------------------------ properties
\* check has returned and its result has not been collected yet.
Finished(p) == pc[p] = "report"

\* The errors check returns before it has a selection to compare.
FetchErrors(p) ==
    {m \o UrlString(p) : m \in {"timeout: ", "Update was empty: ", "Get ", "status: "}}
EmptySelection(p) == "Update was empty. URL: " \o UrlString(p)

\* check got past the test for an empty selection.
ReachedCompare(p) ==
    /\ Finished(p)
    /\ err[p] \notin FetchErrors(p) \cup {"write debug cache", EmptySelection(p)}

\* The page's key is in settings.Updates exactly if it was when the cycle began.
SameMembership(p) == (UrlString(p) \in Updates) <=> (UrlString(p) \in updates0)

\* C1 as stated: a check of a page without comparison file that got a
\* non-empty selection is never Changed, leaves the selection in the
\* comparison file, inserts nothing into settings.Updates, sends no mail and
\* returns nil.
C1_FirstCheckSucceeds ==
    \A p \in Pages :
        (ReachedCompare(p) /\ ~base0[p].exists) =>
            /\ verdict[p] # "changed"
            /\ cache[UrlAsFilename(p)] = File(selection[p])
            /\ SameMembership(p)
            /\ ~mailed[p]
            /\ err[p] = nil

\* C1, amended: a check of a page without comparison file that got a
\* non-empty selection is never Changed, inserts nothing into settings.Updates
\* and sends no mail; it returns nil with the selection in the comparison file
\* unless reading the comparison file or one of the three first-check writes
\* failed, and then it returns that error.
C1_FirstCheck ==
    \A p \in Pages :
        (ReachedCompare(p) /\ ~base0[p].exists) =>
            /\ verdict[p] \in {"none", "new"}
            /\ SameMembership(p)
            /\ ~mailed[p]
            /\ err[p] \in {nil, "read cache", "write cache", "write read", "write debug read"}
            /\ err[p] = nil => /\ verdict[p] = "new"
                               /\ cache[UrlAsFilename(p)] = File(selection[p])

\* A first check returned nil and left its selection as the comparison file.
C1_Witness ==
    \E p \in Pages :
        /\ ReachedCompare(p) /\ ~base0[p].exists
        /\ verdict[p] = "new" /\ err[p] = nil
        /\ Len(selection[p]) > 0
        /\ cache[UrlAsFilename(p)] = File(selection[p])

\* The score of two texts exceeds the threshold, in the words of the
\* distance: 100 * (1 - low/high) > threshold for the sums low <= high of the
\* code points, and 0 > threshold when the sums are equal.
ScoreExceeds(str1, str2, threshold) ==
    LET high == IF Sum(str1) > Sum(str2) THEN Sum(str1) ELSE Sum(str2)
        low == IF Sum(str1) > Sum(str2) THEN Sum(str2) ELSE Sum(str1)
    IN  IF high = low THEN 0 > threshold
        ELSE 100 * (high - low) > threshold * high

WroteBaseline(p) ==
    \/ verdict[p] = "new" /\ err[p] \in {nil, "write read", "write debug read"}
    \/ verdict[p] = "changed" /\ err[p] = nil

C5_ClearedExactlyOnDispatch ==
    \A p \in Pages :
        Finished(p) =>
            IF mailed[p] THEN UrlString(p) \notin Updates
            ELSE (UrlString(p) \in updates0 \/ verdict[p] = "changed") =>
                     UrlString(p) \in Updates

\* C6: when a check has returned, updates.gob loads without error to the map
\* settings.Updates holds in memory.
C6_PersistedEqualsMemory ==
    \A p \in Pages :
        Finished(p) =>
            /\ LoadUpdates(updatesFile, {}).error = nil
            /\ LoadUpdates(updatesFile, {}).Updates = Updates

\* The selection of the check was made and was empty.
EmptySnapshot(p) ==
    /\ Finished(p)
    /\ err[p] \notin FetchErrors(p)
    /\ selection[p] = <<>>

\* C7 as stated: a check with an empty selection returns the error of the
\* empty selection, is neither Unchanged nor Changed, leaves the comparison
\* file as it was and changes no entry of settings.Updates.
C7_EmptySelectionError ==
    \A p \in Pages :
        EmptySnapshot(p) =>
            /\ err[p] = EmptySelection(p)
            /\ verdict[p] = "none"
            /\ cache[UrlAsFilename(p)] = base0[p]
            /\ Updates = updates0

\* C7, amended: a check with an empty selection returns an error, that of
\* the empty selection or, if the write of the debug copy before the test
\* failed, that of the write; it is neither Unchanged nor Changed, does not
\* read or write the comparison file and changes no entry of settings.Updates.
C7_EmptySelection ==
    \A p \in Pages :
        EmptySnapshot(p) =>
            /\ err[p] \in {EmptySelection(p), "write debug cache"}
            /\ verdict[p] = "none"
            /\ cache[UrlAsFilename(p)] = base0[p]
            /\ Updates = updates0

\* A page with a comparison file was checked, all of its text was stripped
\* and the check returned the error of the empty selection.
C7_Witness ==
    \E p \in Pages :
        /\ EmptySnapshot(p) /\ err[p] = EmptySelection(p)
        /\ base0[p].exists
        /\ Settings[p].StripFuncs = <<"numbers">>

\* C8: while no check of a page runs, its comparison file exists exactly if
\* one of its checks has returned nil.
C8_BaselineIffSucceeded ==
    \A p \in Pages :
        pc[p] \in {"idle", "report"} =>
            (cache[UrlAsFilename(p)].exists <=> p \in succeeded)

\* C9: a check whose download took longer than TimeoutDuration leaves the
\* select with the timeout error that names its URL.
C9_SlowFetchTimesOut ==
    [][\A p \in Pages :
          (pc[p] = "select" /\ slow[p] /\ pc'[p] # "select") =>
              err'[p] = "timeout: " \o UrlString(p)]_vars

Running(p) == pc[p] \notin {"idle", "report"}

\* C11: no step cuts a running check off or changes its state unless it is
\* a step of that check: while the check of a page runs the process is not
\* aborted under it, and a step that leaves its position alone leaves its
\* download result, selection, verdict and returned error alone.
C11_SiblingsUnaffected ==
    [][\A p \in Pages :
          Running(p) =>
              /\ ~crashed'
              /\ pc'[p] = pc[p] =>
                     /\ r'[p] = r[p] /\ selection'[p] = selection[p]
                     /\ verdict'[p] = verdict[p] /\ err'[p] = err[p]]_vars

\* C12: at most one Check goroutine is inside an insert into, a delete from
\* or a save of settings.Updates.
C12_MutualExclusion ==
    Cardinality({p \in Pages : pc[p] \in Inside}) <= 1

\* C13: the comparison file of a page changes only in a step in which the
\* check of that page writes it (the first-check write or the last write of
\* an update); no step of another page's check changes it.
C13_OwnBaselineOnly ==
    [][\A p \in Pages :
          cache'[UrlAsFilename(p)] # cache[UrlAsFilename(p)] =>
              pc[p] \in {"first", "writeCache"} /\ pc'[p] = "report"]_vars

\* C14: two pages whose URLs differ in host, path or query have different
\* file names.
C14_UniqueFilename ==
    \A p, q \in Pages :
        <<ReqUrl[p].Host, ReqUrl[p].Path, ReqUrl[p].RawQuery>>
            # <<ReqUrl[q].Host, ReqUrl[q].Path, ReqUrl[q].RawQuery>>
        => UrlAsFilename(p) # UrlAsFilename(q)

\* The stage of check a position belongs to: 1 Fetch, 2 Select, Transform and
\* Filter (the one call of makeSelection), 3 Compare, 4 Persist; 0 before
\* the check and 5 after it.
Stage(label) ==
    CASE label = "idle" -> 0
      [] label \in {"download", "select"} -> 1
      [] label = "extract" -> 2
      [] label = "read" -> 3
      [] label = "report" -> 5
      [] OTHER -> 4

\* The check of p moves within its stage, to the next stage, or returns.
InOrder(p) ==
    \/ Stage(pc'[p]) \in {Stage(pc[p]), Stage(pc[p]) + 1}
    \/ pc'[p] = "report"
    \/ pc[p] = "report" /\ pc'[p] = "idle"

\* A step of the check of p that begins in Fetch, in makeSelection or in Compare.
EarlyStep(p) == Stage(pc[p]) \in 1..3 /\ pc'[p] # pc[p]

\* C15 as stated: the stages of a check run in order, and no step of the
\* check up to and including Compare writes a persisted file: comparison
\* file, updates.gob or debug copy.
C15_NoWriteBeforeCompare ==
    [][\A p \in Pages :
          /\ InOrder(p)
          /\ EarlyStep(p) => UNCHANGED <<cache, updatesFile, debugWritten>>]_vars

\* C15, amended: the stages of a check run in order, and no step of the
\* check up to and including Compare writes the comparison file or
\* updates.gob or changes settings.Updates; the debug copy is written before
\* Compare, by the step that ends makeSelection.
C15_StagesInOrder ==
    [][\A p \in Pages :
          /\ InOrder(p)
          /\ EarlyStep(p) =>
                 /\ UNCHANGED <<cache, updatesFile, Updates>>
                 /\ debugWritten'[p] # debugWritten[p] => pc[p] = "extract"]_vars

\* A check of a page with a comparison file is about to compare: it has
\* written the debug copy and nothing else.
C15_Witness ==
    \E p \in Pages :
        /\ pc[p] = "read" /\ debugWritten[p]
        /\ base0[p].exists /\ cache[UrlAsFilename(p)] = base0[p]
        /\ Updates = updates0

\* C16 as stated: a check that is Unchanged has written no file at all, debug
\* copy included, changed no entry of settings.Updates and sent no mail.
C16_NoSideEffect ==
    \A p \in Pages :
        (Finished(p) /\ verdict[p] = "unchanged") =>
            /\ ~debugWritten[p]
            /\ cache[UrlAsFilename(p)] = base0[p]
            /\ Updates = updates0
            /\ ~mailed[p]

\* C16, amended: a check that is Unchanged returns nil and, besides the debug
\* copy it wrote before comparing, has written no comparison file, changed
\* no entry of settings.Updates, not rewritten updates.gob and sent no mail:
\* the step that finds the page unchanged changes none of these, no earlier
\* step of the check has touched updates.gob, and the comparison file and
\* the map are what they were when the check began.
C16_UnchangedNoEffect ==
    [][\A p \in Pages :
          /\ EarlyStep(p) => UNCHANGED updatesFile
          /\ (pc[p] = "read" /\ verdict'[p] = "unchanged") =>
                 /\ UNCHANGED <<cache, Updates, updatesFile, mailed>>
                 /\ pc'[p] = "report" /\ err'[p] = nil
                 /\ cache'[UrlAsFilename(p)] = base0'[p]
                 /\ Updates' = updates0'
                 /\ ~mailed'[p]
                 /\ debugWritten'[p]]_vars

\* A check found a text that differs from the comparison file within the
\* threshold: it is Unchanged, the file is the old one, and the page's key,
\* inserted by an earlier check, is still in settings.Updates.
C16_Witness ==
    \E p \in Pages :
        /\ Finished(p) /\ verdict[p] = "unchanged" /\ err[p] = nil
        /\ selection[p] # base0[p].data
        /\ cache[UrlAsFilename(p)] = base0[p]
        /\ UrlString(p) \in Updates /\ Updates = updates0
        /\ debugWritten[p]

\* The number of times a code point occurs in a string, and two strings
\* that are permutations of each other.
Count(str, chr) == Cardinality({i \in 1..Len(str) : str[i] = chr})
IsPermutation(a, b) == Len(a) = Len(b) /\ \A chr \in Runes : Count(a, chr) = Count(b, chr)

\* C17: Approx(s, s) is 0, Approx(a, b) is 0 whenever b is a permutation of
\* a, and in general whenever the code point sums are equal (both strings
\* empty included); the score depends on the two sums only: any string with
\* the sum of the first argument, or of the second, gives the same score in
\* its place.
C17_ZeroOnPermutation ==
    approxDist # NoDist =>
        /\ approxStr1 = approxStr2 => approxDist.num = 0
        /\ IsPermutation(approxStr1, approxStr2) => approxDist.num = 0
        /\ Sum(approxStr1) = Sum(approxStr2) => approxDist.num = 0
        /\ \A c \in Strings :
              /\ Sum(c) = Sum(approxStr1) => Approx(c, approxStr2) = approxDist
              /\ Sum(c) = Sum(approxStr2) => Approx(approxStr1, c) = approxDist

C17_Witness ==
    /\ approxDist # NoDist
    /\ approxStr1 # approxStr2
    /\ Len(approxStr1) = 2
    /\ IsPermutation(approxStr1, approxStr2)
    /\ approxDist.num = 0

\* C18: Approx(a, b) equals Approx(b, a): the two scores are equal fractions.
C18_Symmetric ==
    (approxDist # NoDist /\ approxRev # NoDist) =>
        /\ approxDist.den > 0 /\ approxRev.den > 0
        /\ approxDist.num * approxRev.den = approxRev.num * approxDist.den

C18_Witness ==
    /\ approxDist # NoDist /\ approxRev # NoDist
    /\ Sum(approxStr1) > Sum(approxStr2) /\ Sum(approxStr2) > 0
    /\ approxDist.num > 0
    /\ approxDist.num * approxRev.den = approxRev.num * approxDist.den

\* C19: the score lies in [0, 100]; it is exactly 100 when exactly one of
\* the two code point sums is 0, and strictly below 100 when both sums are
\* positive.
C19_Range ==
    approxDist # NoDist =>
        /\ approxDist.den > 0
        /\ 0 <= approxDist.num /\ approxDist.num <= 100 * approxDist.den
        /\ (Sum(approxStr1) = 0) # (Sum(approxStr2) = 0) =>
              approxDist.num = 100 * approxDist.den
        /\ (Sum(approxStr1) > 0 /\ Sum(approxStr2) > 0) =>
              approxDist.num < 100 * approxDist.den

C19_Witness ==
    /\ approxDist # NoDist
    /\ approxStr1 # <<>> /\ Sum(approxStr1) = 0
    /\ Sum(approxStr2) > 0
    /\ approxDist.num = 100 * approxDist.den

\* A tree without the digits of its text nodes, everything else as it is; a
\* tree no text node of which holds a digit.
RECURSIVE WithoutDigits(_)
WithoutDigits(node) ==
    Node(node.Type,
         IF node.Type = "TextNode" THEN SelectSeq(node.Data, LAMBDA chr : ~IsDigit(chr))
         ELSE node.Data,
         node.Attr,
         [i \in 1..Len(node.Child) |-> WithoutDigits(node.Child[i])])
RECURSIVE NoDigits(_)
NoDigits(node) ==
    /\ node.Type = "TextNode" => \A i \in 1..Len(node.Data) : ~IsDigit(node.Data[i])
    /\ \A i \in 1..Len(node.Child) : NoDigits(node.Child[i])

RECURSIVE NoAttrs(_)
NoAttrs(node) ==
    /\ node.Type = "ElementNode" => node.Attr = <<>>
    /\ \A i \in 1..Len(node.Child) : NoAttrs(node.Child[i])

\* Two trees of the same shape whose nodes agree in Type and Data, and in
\* Attr where the node is not an element.
RECURSIVE SameButAttrs(_, _)
SameButAttrs(a, b) ==
    /\ a.Type = b.Type /\ a.Data = b.Data
    /\ a.Type # "ElementNode" => a.Attr = b.Attr
    /\ Len(a.Child) = Len(b.Child)
    /\ \A i \in 1..Len(a.Child) : SameButAttrs(a.Child[i], b.Child[i])

\* C21: after strip.Attrs no element at any depth has an attribute, and tag
\* names, text nodes, comments and the shape of the tree are those of the
\* input.
C21_AttrsRemoved ==
    (applied # <<>> /\ applied[1] = "attrs") =>
        NoAttrs(stripDoc) /\ SameButAttrs(stripDoc, stripDoc0)

C21_Witness ==
    /\ applied = <<"attrs">>
    /\ Len(stripDoc0.Child) = 2
    /\ stripDoc0.Child[2].Attr # <<>>
    /\ Len(stripDoc0.Child[2].Child) = 1
    /\ stripDoc.Child[2].Attr = <<>>
    /\ stripDoc.Child[2].Child = stripDoc0.Child[2].Child

\* The tree holds a script element; the text of the text nodes of a tree.
RECURSIVE HasScript(_)
HasScript(node) ==
    \/ node.Type = "ElementNode" /\ node.Data = script
    \/ \E i \in 1..Len(node.Child) : HasScript(node.Child[i])

\* The tree without its script elements and what is below them.
RECURSIVE WithoutScripts(_)
WithoutScripts(node) ==
    LET kept == SelectSeq(node.Child,
                          LAMBDA c : ~(c.Type = "ElementNode" /\ c.Data = script))
    IN  [node EXCEPT !.Child = [i \in 1..Len(kept) |-> WithoutScripts(kept[i])]]

\* C22: after strip.Scripts the tree holds no script element and nothing
\* that was inside one, and every other node is kept.
C22_ScriptsRemoved ==
    (applied # <<>> /\ applied[1] = "scripts") =>
        ~HasScript(stripDoc) /\ stripDoc = WithoutScripts(stripDoc0)

\* html.Render of a tree (no character of the texts used needs escaping).
RECURSIVE RenderFrom(_, _)
RECURSIVE RenderAttrs(_, _)
RenderAttrs(attr, i) ==
    IF i > Len(attr) THEN <<>>
    ELSE <<32>> \o attr[i].Key \o <<61, 34>> \o attr[i].Val \o <<34>> \o RenderAttrs(attr, i + 1)
Render(node) ==
    CASE node.Type = "TextNode" -> node.Data
      [] node.Type = "CommentNode" -> <<60, 33, 45, 45>> \o node.Data \o <<45, 45, 62>>
      [] node.Type = "ElementNode" ->
            <<60>> \o node.Data \o RenderAttrs(node.Attr, 1) \o <<62>>
                \o RenderFrom(node.Child, 1) \o <<60, 47>> \o node.Data \o <<62>>
      [] OTHER -> RenderFrom(node.Child, 1)
RenderFrom(children, i) ==
    IF i > Len(children) THEN <<>>
    ELSE Render(children[i]) \o RenderFrom(children, i + 1)

RECURSIVE NoElements(_)
NoElements(node) ==
    /\ node.Type # "ElementNode"
    /\ \A i \in 1..Len(node.Child) : NoElements(node.Child[i])

\* C23: after strip.HTML the tree holds no element and renders as the
\* trimmed text of every text node of the input, each followed by a
\* newline, in pre-order.
C23_HtmlFlattens ==
    (applied # <<>> /\ applied[1] = "html" /\ Len(applied) = 1) =>
        NoElements(stripDoc) /\ Render(stripDoc) = Flatten(stripDoc0)

\* The transform a name stands for when names are matched exactly, and when
\* they are matched without regard to case; the transforms of a list of
\* names one after the other, the first name first.
TransformExact(name, doc) ==
    IF name = "numbers" THEN NumbersNode(doc)
    ELSE IF name = "attrs" THEN AttrsNode(doc)
    ELSE IF name = "html" THEN HTMLNode(doc)
    ELSE IF name = "scripts" THEN ScriptsNode(doc)
    ELSE doc
Transform(name, doc) == TransformExact(ToLower(name), doc)
RECURSIVE InOrderExact(_, _)
InOrderExact(names, doc) ==
    IF names = <<>> THEN doc
    ELSE TransformExact(names[Len(names)],
                        InOrderExact(SubSeq(names, 1, Len(names) - 1), doc))
RECURSIVE InConfiguredOrder(_, _)
InConfiguredOrder(names, doc) ==
    IF names = <<>> THEN doc
    ELSE Transform(names[Len(names)],
                   InConfiguredOrder(SubSeq(names, 1, Len(names) - 1), doc))
Recognized(name) == name \in {"numbers", "attrs", "html", "scripts"}

Occurrences(lit, text) ==
    {i \in 1..(Len(text) - Len(lit) + 1) : SubSeq(text, i, i + Len(lit) - 1) = lit}
Apart(S, n) == \A i, j \in S : i < j => j - i >= n
Matchings(lit, text) ==
    {S \in SUBSET Occurrences(lit, text) :
        /\ Apart(S, Len(lit))
        /\ \A T \in SUBSET Occurrences(lit, text) :
              Apart(T, Len(lit)) => Cardinality(T) <= Cardinality(S)}
Covered(S, n) == {i + d : i \in S, d \in 0..(n - 1)}
Without(text, gone) ==
    LET keep == {i \in 1..Len(text) : i \notin gone}
    IN  [k \in 1..Cardinality(keep) |->
            text[CHOOSE i \in keep : Cardinality({j \in keep : j <= i}) = k]]
Repeated(text, k) == [i \in 1..(k * Len(text)) |-> text[((i - 1) % Len(text)) + 1]]

\* inc is what a text becomes under the inclusion pattern, out what a text
\* becomes under the exclusion pattern.
IncludedAs(pattern, text, inc) ==
    IF pattern = <<>> THEN inc = text
    ELSE \E S \in Matchings(Literal(pattern), text) :
            inc = Repeated(Literal(pattern) \o <<10>>, Cardinality(S))
ExcludedAs(pattern, text, out) ==
    IF pattern = <<>> THEN out = text
    ELSE \E S \in Matchings(Literal(pattern), text) :
            out = Without(text, Covered(S, Len(Literal(pattern))))

\* C25: makeSelection applies Regexp first and Negexp second.  With Regexp
\* the text becomes every non-overlapping match in order, each followed by
\* a newline (empty without a match); with Negexp every match is then
\* deleted from that text; an unset pattern leaves the text as it is.
C25_IncludeThenExclude ==
    (made # NoSelection /\ made.error = nil) =>
        LET s == Settings["p1"]
            text == StripFrom(s.StripFuncs, 1, htmlNode)
        IN  \E k \in 0..Len(text) :
                LET inc == IF s.Regexp = <<>> THEN text
                           ELSE Repeated(Literal(s.Regexp) \o <<10>>, k)
                IN  /\ IncludedAs(s.Regexp, text, inc)
                    /\ ExcludedAs(s.Negexp, inc, made.selection)

C25_Witness ==
    /\ made # NoSelection /\ made.error = nil
    /\ Settings["p1"].StripFuncs = <<>>
    /\ Settings["p1"].Regexp = <<40, 97, 41>>
    /\ Settings["p1"].Negexp = <<>>
    /\ htmlNode = <<97, 49, 97>>
    /\ made.selection = <<97, 10, 97, 10>>

\* C26: every check whose download succeeded has written the debug copy when
\* it returns, whatever makeSelection and the comparison did (a failed
\* write of the debug copy itself set aside).
C26_DebugCopyAlways ==
    \A p \in Pages :
        (Finished(p) /\ err[p] \notin FetchErrors(p) \cup {"write debug cache"}) =>
            debugWritten[p]

\* The errors of the download and of makeSelection.
ExtractionErrors(p) == FetchErrors(p) \cup {"cascadia.Compile", "regexp.Compile"}

\* C27: a check that returns a timeout, a download error or an error of
\* makeSelection has left the comparison file, settings.Updates and
\* updates.gob as they were when it began and has taken no branch of the
\* comparison; once it has returned the page is checked again only by the
\* next ForceUpdate.
C27_FailureLeavesState ==
    [][\A p \in Pages :
          /\ EarlyStep(p) => UNCHANGED updatesFile
          /\ (pc[p] # "report" /\ pc'[p] = "report" /\ err'[p] \in ExtractionErrors(p)) =>
                /\ UNCHANGED <<cache, Updates, updatesFile>>
                /\ cache'[UrlAsFilename(p)] = base0'[p]
                /\ Updates' = updates0'
                /\ verdict'[p] = "none"
          /\ pc[p] = "report" => pc'[p] \in {"report", "idle"}
          /\ (pc[p] = "idle" /\ pc'[p] # "idle") => cycle' = cycle + 1]_vars

C27_Witness ==
    \E p \in Pages :
        /\ Finished(p)
        /\ err[p] = "status: " \o UrlString(p)
        /\ base0[p].exists
        /\ cache[UrlAsFilename(p)] = base0[p]
        /\ UrlString(p) \in Updates /\ Updates = updates0
        /\ updatesFile.state = "gob"

C29_UnknownNamesRejected ==
    readPages # NotRead =>
        IF \E p \in Pages : \E i \in 1..Len(iniStrip[p]) : ~Recognized(iniStrip[p][i])
        THEN readPages.error # nil /\ readPages.pages = <<>>
        ELSE /\ readPages.error = nil
             /\ \A p \in Pages :
                   /\ readPages.pages[p].StripFuncs = iniStrip[p]
                   /\ \A i \in 1..Len(readPages.pages[p].StripFuncs) :
                         Recognized(ToLower(readPages.pages[p].StripFuncs[i]))

C29_Witness ==
    /\ readPages # NotRead
    /\ readPages.error = nil
    /\ readPages.pages["p1"].StripFuncs = <<"numbers", "html">>
    /\ readPages.pages["p2"].StripFuncs = <<"scripts">>

\* The check of the page that came before this one returned nil after a first
\* check or an update, and this check extracted the snapshot that one stored.
SameSnapshot(p) ==
    /\ Finished(p)
    /\ last[p].written
    /\ selection[p] = last[p].text

SendsMail(p) == pc[p] = "mail" /\ pc'[p] # "mail"

\* The positions of check behind the call of mail.Send.
AfterMail == {"delete", "inDelete", "save", "inSave", "writeCache", "report"}

\* C31: check calls mail.Send only when it found the page updated (there was
\* a comparison file and the distance exceeded the threshold) and RecvMail,
\* SenderMail.Address, AuthServer and OutServer are all set; a check without
\* that verdict (first check, no update, or an error before the comparison)
\* never does, and no check calls it twice: the call is reached from the
\* insert into settings.Updates only, and behind it the check goes on to the
\* delete or returns.
C31_MailOnlyWhenChanged ==
    [][\A p \in Pages :
          /\ SendsMail(p) =>
                /\ verdict[p] = "changed"
                /\ base0[p].exists
                /\ ScoreExceeds(base0[p].data, selection[p], Settings[p].Threshold)
                /\ Settings[p].RecvMail # ""
                /\ SenderMail.Address # "" /\ SenderMail.AuthServer # ""
                /\ SenderMail.OutServer # ""
                /\ ~mailed[p]
                /\ pc'[p] = IF mailed'[p] THEN "delete" ELSE "report"
          /\ mailed'[p] /\ ~mailed[p] => SendsMail(p)
          /\ mailed'[p] => pc'[p] \in AfterMail
          /\ (pc'[p] = "mail" /\ pc[p] # "mail") => (pc[p] = "inInsert" /\ ~mailed[p])
          /\ (pc'[p] \in {"insert", "inInsert"} /\ pc[p] # pc'[p]) => pc[p] \in {"read", "insert"}
          /\ pc[p] \in AfterMail => pc'[p] \in AfterMail \cup {"idle"}
          /\ verdict'[p] # "changed" => ~mailed'[p]]_vars

\* A check that found the page updated has mailed the update and returned
\* nil.
C31_Witness ==
    \E p \in Pages :
        /\ Finished(p) /\ mailed[p] /\ err[p] = nil
        /\ verdict[p] = "changed"
        /\ Settings[p].RecvMail # "" /\ SenderMail = SetSenderMail
        /\ cache[UrlAsFilename(p)] = File(selection[p])

\* The check of p found the page updated and returned the error of mail.Send
\* or of settings.SaveUpdates.
FailedUpdate(p) ==
    /\ Finished(p)
    /\ verdict[p] = "changed"
    /\ err[p] \in {"mail"} \cup SaveErrors

\* The check of the page that came before this one was such a check, and this
\* check extracted the same snapshot again.
SameUpdate(p) ==
    /\ Finished(p)
    /\ last[p] # NoSnapshot
    /\ last[p] = Detected(selection[p])

\* The comparison file of p is still the one the check began with, and the
\* snapshot differs from it by more than the threshold.
OldBaseline(p) ==
    /\ base0[p].exists
    /\ cache[UrlAsFilename(p)] = base0[p]
    /\ ScoreExceeds(base0[p].data, selection[p], Settings[p].Threshold)

\* mail.Send was called by the check of p if the mail settings are there.
MailedAgain(p) ==
    (Settings[p].RecvMail # "" /\ SenderMail.Address # "" /\ SenderMail.AuthServer # ""
        /\ SenderMail.OutServer # "") => (mailed[p] \/ err[p] = "mail")

\* C32 as stated: an update whose mail or save failed leaves the old
\* comparison file, and the next check of the page with the same snapshot
\* finds the update again and mails it again.
C32_ChangeDetectedAgain ==
    \A p \in Pages :
        /\ FailedUpdate(p) => OldBaseline(p)
        /\ SameUpdate(p) => (verdict[p] = "changed" /\ MailedAgain(p))

\* C32: in the branch of an update the comparison file is written by the last
\* step only, after mail.Send and settings.SaveUpdates; a check that returns
\* the error of one of them leaves the old comparison file, and the next
\* check of the page with the same snapshot finds the update again and calls
\* mail.Send again, unless writing the debug copy or reading the comparison
\* file fails on it: then it returns that error and the old comparison file
\* is still there.
C32_UpdateFoundAgain ==
    [][\A p \in Pages :
          /\ (verdict[p] = "changed" /\ cache'[UrlAsFilename(p)] # cache[UrlAsFilename(p)]) =>
                (pc[p] = "writeCache" /\ pc'[p] = "report")
          /\ (pc'[p] = "writeCache" /\ pc[p] # "writeCache") => pc[p] = "inSave"
          /\ (pc'[p] = "save" /\ pc[p] # "save") =>
                pc[p] = IF MailedAgain(p) /\ mailed[p] THEN "inDelete" ELSE "inInsert"
          /\ FailedUpdate(p)' => OldBaseline(p)'
          /\ SameUpdate(p)' =>
                IF err'[p] \in {"write debug cache", "read cache"}
                THEN /\ verdict'[p] = "none"
                     /\ cache'[UrlAsFilename(p)] = base0'[p]
                     /\ ScoreExceeds(base0'[p].data, selection'[p], Settings[p].Threshold)
                ELSE /\ verdict'[p] = "changed"
                     /\ MailedAgain(p)'
                     /\ err'[p] \in {nil, "write cache"} \/ OldBaseline(p)']_vars

\* The update whose mail or save had failed was found again by the next
\* check, mailed and stored.
C32_Witness ==
    \E p \in Pages :
        /\ SameUpdate(p)
        /\ verdict[p] = "changed" /\ mailed[p] /\ err[p] = nil
        /\ cache[UrlAsFilename(p)] = File(selection[p])
        /\ base0[p] # File(selection[p])

\* C33: when ForceUpdate has started the checks of a cycle, every one of them
\* sends its result and the collector receives them all: the cycle comes to
\* a state where no Check goroutine is running and the collector waits for
\* no further result.
C33_AllResultsCollected ==
    (\E p \in Pages : pc[p] # "idle") ~> (numChecks = 0 /\ \A p \in Pages : pc[p] = "idle")

====
